---------------------------- MODULE Spec2Model ----------------------------
(***************************************************************************)
(* A model of avalon-rs: the room coordinator (src/src/server.rs), the     *)
(* role dealer (src/src/game.rs) and the requests the websocket sessions   *)
(* (src/src/session.rs) send to the coordinator.                           *)
(*                                                                         *)
(* Strings of the program are strings here; format! and join are string    *)
(* concatenation.  The Chinese literals of the source are written as       *)
(* ASCII glosses, one distinct gloss per literal.                          *)
(***************************************************************************)
EXTENDS Integers, Sequences, FiniteSets, TLC

(***************************************************************************)
(* Bounds of the model.  The rooms of the program hold 5 to 10 sessions,   *)
(* so the system is explored in two worlds: a small one, where rooms are   *)
(* created, joined and left but never fill, and a large one with enough    *)
(* sessions to fill a room.                                                *)
(***************************************************************************)
\* small world: session ids are drawn from 0 .. NIds-1 (the source draws a
\* random usize)
NIds == 3
\* small world: room names are drawn from 0 .. NRoomNames-1 (the source draws
\* from 0 .. 999)
NRoomNames == 2
\* large world: session ids are drawn from 0 .. FillIds-1
FillIds == 5
\* large world: room names are drawn from 0 .. FillRoomNames-1
FillRoomNames == 1
\* the highest NDup ids of a world may be drawn while a running session holds
\* them
NDup == 1
\* running sessions that are not the registered channel of their id
MaxStale == 1
\* second Disconnect messages of timed out sessions in flight
MaxPend == 1
\* the player numbers an Assignment is asked for are 0 .. MaxNumber
MaxNumber == 11
\* the frames the client of the session followed through its mailboxes sends
MaxCmds == 3

Gens == 1 .. (MaxStale + 1)

(***************************************************************************)
(* game.rs                                                                 *)
(***************************************************************************)
Role == {"Assassin", "Merlin", "Mordred", "Morgana", "Oberon", "Percival", "Loyal"}

alliance(role) ==
    IF role \in {"Merlin", "Percival", "Loyal"} THEN "Resistance" ELSE "Spy"

\* Role::name, the text Display writes
name(role) ==
    CASE role = "Assassin" -> "the Assassin"
      [] role = "Merlin"   -> "the Merlin"
      [] role = "Mordred"  -> "the Mordred"
      [] role = "Morgana"  -> "the Morgana"
      [] role = "Oberon"   -> "the Oberon"
      [] role = "Percival" -> "the Percival"
      [] role = "Loyal"    -> "the Loyal Servant"

LOWER_ROOM_SIZE == 5

ROLES == <<"Merlin", "Assassin", "Percival", "Morgana", "Loyal",
           "Loyal", "Oberon", "Loyal", "Loyal", "Mordred">>

UPPER_ROOM_SIZE == Len(ROLES)

Digits == <<"0", "1", "2", "3", "4", "5", "6", "7", "8", "9">>

\* usize / u8 / u32 to_string and {} formatting of a number
RECURSIVE to_string(_)
to_string(n) ==
    IF n < 10 THEN Digits[n + 1]
    ELSE to_string(n \div 10) \o Digits[(n % 10) + 1]

\* s with x put in at position i
InsertAt(s, i, x) == SubSeq(s, 1, i - 1) \o <<x>> \o SubSeq(s, i, Len(s))

\* every order slice::shuffle can leave s in: the last element at any
\* position of any order of the others
RECURSIVE shuffle(_)
shuffle(s) ==
    IF Len(s) = 0 THEN {<<>>}
    ELSE { InsertAt(p, i, s[Len(s)]) :
               p \in shuffle(SubSeq(s, 1, Len(s) - 1)), i \in 1 .. Len(s) }

\* a deal that refuses LOWER_ROOM_SIZE players too
deal_above_lower(number) ==
    IF number <= LOWER_ROOM_SIZE \/ number > UPPER_ROOM_SIZE
    THEN { [ok |-> FALSE, err |-> "invalid player number: " \o to_string(number), roles |-> <<>>] }
    ELSE { [ok |-> TRUE, err |-> "", roles |-> r] : r \in shuffle(SubSeq(ROLES, 1, number)) }

\* the results deal(number) can return: an error, or one of the shuffles
deal(number) ==
    IF number < LOWER_ROOM_SIZE \/ number > UPPER_ROOM_SIZE
    THEN { [ok |-> FALSE, err |-> "invalid player number: " \o to_string(number), roles |-> <<>>] }
    ELSE { [ok |-> TRUE, err |-> "", roles |-> r] : r \in shuffle(SubSeq(ROLES, 1, number)) }

\* Assignment::new: players is the zip of the names with the dealt roles
Assignment_new(names) ==
    { [ok |-> d.ok, err |-> d.err,
       players |-> [i \in 1 .. Len(d.roles) |-> <<names[i], d.roles[i]>>]] :
      d \in deal(Len(names)) }

\* the (index, name) pairs of the players whose role satisfies the closure
\* f, in seat order; indexes count from 0.  A closure is a function value.
RECURSIVE filter_from(_, _, _)
filter_from(players, f, i) ==
    IF i > Len(players) THEN <<>>
    ELSE (IF f[players[i][2]] THEN << <<i - 1, players[i][1]>> >> ELSE <<>>)
         \o filter_from(players, f, i + 1)

filter_players(players, f) == filter_from(players, f, 1)

\* closures that leave out the exception of the one they stand for
IsSpyView_with_Oberon == [role \in Role |-> alliance(role) = "Spy"]
IsMerlinEvil_with_Mordred == [role \in Role |-> alliance(role) = "Spy"]
IsPercivalView_Merlin_only == [role \in Role |-> role = "Merlin"]

IsSpyView == [role \in Role |-> alliance(role) = "Spy" /\ role # "Oberon"]
IsMerlinGood == [role \in Role |-> ~(alliance(role) = "Spy" /\ role # "Mordred")]
IsMerlinEvil == [role \in Role |-> alliance(role) = "Spy" /\ role # "Mordred"]
IsPercivalView == [role \in Role |-> role \in {"Merlin", "Morgana"}]

\* SeeingBy: tag, and the one or two lists it carries
see_from_role(players, role) ==
    CASE role \in {"Assassin", "Morgana", "Mordred"} ->
           [tag |-> "Spy", l1 |-> filter_players(players, IsSpyView), l2 |-> <<>>]
      [] role = "Merlin" ->
           [tag |-> "Merlin", l1 |-> filter_players(players, IsMerlinGood),
            l2 |-> filter_players(players, IsMerlinEvil)]
      [] role = "Percival" ->
           [tag |-> "Percival", l1 |-> filter_players(players, IsPercivalView), l2 |-> <<>>]
      [] OTHER ->
           [tag |-> "Normal", l1 |-> <<>>, l2 |-> <<>>]

\* itertools::join of the images of list under f
RECURSIVE join(_, _, _)
join(list, f, sep) ==
    IF Len(list) = 0 THEN ""
    ELSE IF Len(list) = 1 THEN f[list[1]]
    ELSE f[list[1]] \o sep \o join(Tail(list), f, sep)

text_with_formatter(view, f) ==
    CASE view.tag = "Normal" -> ""
      [] view.tag = "Spy" -> join(view.l1, f, ", ") \o " are all bad"
      [] view.tag = "Merlin" ->
           join(view.l1, f, ", ") \o " are all good\n" \o join(view.l2, f, ", ") \o " are all bad"
      [] view.tag = "Percival" ->
           join(view.l1, f, " and ") \o " among them one is Merlin, the other is Morgana"

text_from_player(view, id) ==
    LET listed == { view.l1[i] : i \in 1 .. Len(view.l1) } \cup { view.l2[i] : i \in 1 .. Len(view.l2) }
        f == [p \in listed |-> IF p[1] = id THEN "you" ELSE p[2]]
    IN  text_with_formatter(view, f)


(***************************************************************************)
(* server.rs: the coordinator's state                                      *)
(*                                                                         *)
(* A session actor's address (Recipient<Message>) is the pair <<id, g>>:   *)
(* the id Connect returned to it and a number g telling apart the actors   *)
(* that were given the same id.                                            *)
(***************************************************************************)
VARIABLES
    sessions,   \* ChatServer.sessions: id -> address of the registered actor
    rooms,      \* ChatServer.rooms: room name -> Room
    live,       \* the addresses of the session actors that are running
    pend,       \* stopped by heartbeat timeout, second Disconnect in flight
    last,       \* the request handled last and the branch it took
    sent,       \* the texts the last request made go out: <<address, text>>
    reply,      \* the Vec<String> the last ListRooms returned
    assigned,   \* the seats and the Assignment of the room the last request filled
    game,       \* game.rs on its own: the player number, the Assignment made
                \* for it and the views computed from it
    sess        \* one session with its mailboxes: the frames of its client it
                \* has not handled, its requests the coordinator has not
                \* handled, the Messages it has not relayed, the texts written
                \* to its client

vars == <<sessions, rooms, live, pend, last, sent, reply, assigned, game, sess>>

\* gen_range(0, 1000) of Create
NAME_SPACE == 1000
\* the numbers gen_range draws from when only the first n are explored
RoomNumbers(n) == 0 .. ((IF n < NAME_SPACE THEN n ELSE NAME_SPACE) - 1)

\* Option<String>
None == <<>>
Some(s) == <<s>>

\* the order a BTreeSet<usize> is iterated in
RECURSIVE ascending(_)
ascending(S) ==
    IF S = {} THEN <<>>
    ELSE LET m == CHOOSE x \in S : \A y \in S : x <= y
         IN  <<m>> \o ascending(S \ {m})

\* the decimal digits of n, most significant first
RECURSIVE digits(_)
digits(n) == IF n < 10 THEN <<n>> ELSE digits(n \div 10) \o <<n % 10>>

\* String's Ord on two decimal strings, given as their digits
RECURSIVE lex_less(_, _)
lex_less(s, t) ==
    IF Len(t) = 0 THEN FALSE
    ELSE IF Len(s) = 0 THEN TRUE
    ELSE IF s[1] # t[1] THEN s[1] < t[1]
    ELSE lex_less(Tail(s), Tail(t))

\* str::parse of a room name
number_of(room) == CHOOSE n \in 0 .. (NAME_SPACE - 1) : to_string(n) = room

\* the order a BTreeMap<String, _> with the keys K is iterated in
RECURSIVE key_order(_)
key_order(K) ==
    IF K = {} THEN <<>>
    ELSE LET m == CHOOSE x \in K :
                    \A y \in K \ {x} : lex_less(digits(number_of(x)), digits(number_of(y)))
         IN  <<m>> \o key_order(K \ {m})

\* m without the key k
without(m, k) == [x \in DOMAIN m \ {k} |-> m[x]]

\* m with k mapped to v (BTreeMap::insert)
insert(m, k, v) == [x \in DOMAIN m \cup {k} |-> IF x = k THEN v ELSE m[x]]

\* a fullness test that counts one member too many
Room_is_full_one_short(room) == Cardinality(room.sessions) + 1 = room.size

Room_is_full(room) == Cardinality(room.sessions) = room.size

\* a broadcast that goes to the members of every room
broadcast_to_every_room(ss, rms, room, message, skip_id) ==
    LET ids == ascending(UNION { rms[r].sessions : r \in DOMAIN rms })
        out[i \in 0 .. Len(ids)] ==
            IF i = 0 THEN <<>>
            ELSE out[i - 1] \o
                 (IF ids[i] # skip_id /\ ids[i] \in DOMAIN ss
                  THEN << <<ss[ids[i]], message>> >> ELSE <<>>)
    IN  out[Len(ids)]

\* the sends of broadcast_message, in order
broadcast_message(ss, rms, room, message, skip_id) ==
    IF room \in DOMAIN rms
    THEN LET ids == ascending(rms[room].sessions)
             out[i \in 0 .. Len(ids)] ==
                 IF i = 0 THEN <<>>
                 ELSE out[i - 1] \o
                      (IF ids[i] # skip_id /\ ids[i] \in DOMAIN ss
                       THEN << <<ss[ids[i]], message>> >> ELSE <<>>)
         IN  out[Len(ids)]
    ELSE <<>>

send_message_to_user(ss, id, message) ==
    IF id \in DOMAIN ss THEN << <<ss[id], message>> >> ELSE <<>>

seat_names(seats) == [i \in 1 .. Len(seats) |-> seats[i][2]]

\* a lookup that takes the id of the seat after seat_no
seat_id_of_next(seats, seat_no) == seats[((seat_no + 1) % Len(seats)) + 1][1]

\* seats[seat_no].0, seat_no counted from 0
seat_id(seats, seat_no) == seats[seat_no + 1][1]

\* the sends of assign_and_notify's loop over the players
notify(ss, seats, players) ==
    LET out[n \in 0 .. Len(players)] ==
            IF n = 0 THEN <<>>
            ELSE LET seat_no == n - 1
                     role == players[n][2]
                     id == seat_id(seats, seat_no)
                     assignment_text == text_from_player(see_from_role(players, role), seat_no)
                 IN  out[n - 1]
                     \o send_message_to_user(ss, id, "your role is [" \o name(role) \o "],")
                     \o (IF assignment_text = ""
                         THEN send_message_to_user(ss, id, "you have no hint")
                         ELSE send_message_to_user(ss, id, assignment_text))
    IN  out[Len(players)]

\* the results assign_and_notify can have: Err(err), or Ok with the sends;
\* players is the Assignment it made
assign_and_notify(ss, rms, room) ==
    IF room \in DOMAIN rms
    THEN { [ok |-> a.ok, err |-> a.err, players |-> a.players,
            out |-> IF a.ok THEN notify(ss, rms[room].seats, a.players) ELSE <<>>] :
           a \in Assignment_new(seat_names(rms[room].seats)) }
    ELSE { [ok |-> TRUE, err |-> "", players |-> <<>>, out |-> <<>>] }

\* a retain that drops no seat: the leaver keeps its seat
retain_none(seats, id) == seats

\* Vec::retain(|(session_id, _)| session_id != id)
retain(seats, id) == SelectSeq(seats, LAMBDA p : p[1] # id)

\* a removal that leaves the session in the rooms it is in
remove_user_from_no_room(ss, rms, id) == [rooms |-> rms, out |-> <<>>]

\* a removal that leaves the rooms it emptied open
remove_user_keeping_empty_rooms(ss, rms, id) ==
    LET removed == { r \in DOMAIN rms : id \in rms[r].sessions }
        rms1 == [r \in DOMAIN rms |->
                    IF r \in removed
                    THEN [rms[r] EXCEPT !.sessions = @ \ {id}, !.seats = retain(@, id)]
                    ELSE rms[r]]
        removed_rooms == key_order(removed)
        out[i \in 0 .. Len(removed_rooms)] ==
            IF i = 0 THEN <<>>
            ELSE out[i - 1] \o broadcast_message(ss, rms1, removed_rooms[i], "Someone disconnected", 0)
    IN  [rooms |-> rms1, out |-> out[Len(removed_rooms)]]

\* the rooms and the sends remove_user_from_all_rooms leaves
remove_user_from_all_rooms(ss, rms, id) ==
    LET removed_rooms == SelectSeq(key_order(DOMAIN rms), LAMBDA r : id \in rms[r].sessions)
        removed == { removed_rooms[i] : i \in 1 .. Len(removed_rooms) }
        rms1 == [r \in DOMAIN rms |->
                    IF r \in removed
                    THEN [rms[r] EXCEPT !.sessions = @ \ {id}, !.seats = retain(@, id)]
                    ELSE rms[r]]
        empty_rooms == { r \in removed : rms1[r].sessions = {} }
        rms2 == [r \in DOMAIN rms1 \ empty_rooms |-> rms1[r]]
        out[i \in 0 .. Len(removed_rooms)] ==
            IF i = 0 THEN <<>>
            ELSE out[i - 1] \o broadcast_message(ss, rms2, removed_rooms[i], "Someone disconnected", 0)
    IN  [rooms |-> rms2, out |-> out[Len(removed_rooms)]]

(***************************************************************************)
(* server.rs: the handlers.  Each gives the state and the sends it leaves, *)
(* and res, the branch it took.                                            *)
(***************************************************************************)

\* no room was filled
NoDeal == [seats |-> <<>>, players |-> <<>>]

\* Handler<Connect>: id is the number the rng gave
Connect_handle(ss, id, addr) == insert(ss, id, addr)

\* a Disconnect that cleans the rooms whether or not the id was registered
Disconnect_handle_unchecked(ss, rms, id) ==
    LET r == remove_user_from_all_rooms(without(ss, id), rms, id)
    IN  [sessions |-> without(ss, id), rooms |-> r.rooms, out |-> r.out,
         res |-> IF id \in DOMAIN ss THEN "removed" ELSE "absent"]

\* Handler<Disconnect>
Disconnect_handle(ss, rms, id) ==
    IF id \in DOMAIN ss
    THEN LET r == remove_user_from_all_rooms(without(ss, id), rms, id)
         IN  [sessions |-> without(ss, id), rooms |-> r.rooms, out |-> r.out, res |-> "removed"]
    ELSE [sessions |-> ss, rooms |-> rms, out |-> <<>>, res |-> "absent"]

\* Handler<ListRooms>
ListRooms_handle(rms) == key_order(DOMAIN rms)

\* a refusal that has the caller leave its rooms first
room_not_exist_after_leaving(ss, rms, id) ==
    LET r == remove_user_from_all_rooms(ss, rms, id)
    IN  { [rooms |-> r.rooms,
           out |-> r.out \o send_message_to_user(ss, id, "!!! room not exist"),
           res |-> "not_exist", deal |-> NoDeal] }

\* Handler<Join> when the room is not open: the error, and return
room_not_exist(ss, rms, id) ==
    { [rooms |-> rms, out |-> send_message_to_user(ss, id, "!!! room not exist"),
       res |-> "not_exist", deal |-> NoDeal] }

\* Handler<Join>: the results it can have (the deal is random)
Join_handle(ss, rms, id, session_name, room) ==
    IF room \notin DOMAIN rms
    THEN room_not_exist(ss, rms, id)
    ELSE LET r == remove_user_from_all_rooms(ss, rms, id)
         IN  IF room \notin DOMAIN r.rooms
             THEN { [rooms |-> r.rooms,
                     out |-> r.out \o send_message_to_user(ss, id,
                                 "!!! room not exist, may be deleted just now"),
                     res |-> "deleted", deal |-> NoDeal] }
             ELSE LET rms1 == [r.rooms EXCEPT
                                 ![room].sessions = @ \cup {id},
                                 ![room].seats = Append(@, <<id, session_name>>)]
                      is_full == Room_is_full(rms1[room])
                      out1 == r.out
                              \o broadcast_message(ss, rms1, room, session_name \o " connected", id)
                              \o send_message_to_user(ss, id, "joined")
                  IN  IF ~is_full
                      THEN { [rooms |-> rms1, out |-> out1, res |-> "joined", deal |-> NoDeal] }
                      ELSE { [rooms |-> without(rms1, room),
                              out |-> out1
                                  \o broadcast_message(ss, rms1, room, "everyone is here", 0)
                                  \o (IF a.ok THEN a.out
                                      ELSE broadcast_message(ss, rms1, room,
                                               "assignment failed: " \o a.err, 0)),
                              res |-> IF a.ok THEN "assigned" ELSE "assign_failed",
                              deal |-> [seats |-> rms1[room].seats, players |-> a.players]] :
                             a \in assign_and_notify(ss, rms1, room) }

\* a failure that has the caller leave its rooms first
create_failed_after_leaving(ss, rms, id, room) ==
    LET r == remove_user_from_all_rooms(ss, rms, id)
    IN  [rooms |-> r.rooms, room |-> room,
         out |-> r.out \o send_message_to_user(ss, id, "!!! create room failed"),
         res |-> "create_failed"]

\* Handler<Create> when the name drawn is the name of an open room
create_failed(ss, rms, id, room) ==
    [rooms |-> rms, room |-> room,
     out |-> send_message_to_user(ss, id, "!!! create room failed"),
     res |-> "create_failed"]

\* Handler<Create>: number is what gen_range(0, 1000) gave
Create_handle(ss, rms, id, session_name, size, number) ==
    LET room == to_string(number)
    IN  IF room \in DOMAIN rms
        THEN create_failed(ss, rms, id, room)
        ELSE LET r == remove_user_from_all_rooms(ss, rms, id)
             IN  [rooms |-> insert(r.rooms, room,
                                   [sessions |-> {id}, size |-> size,
                                    seats |-> << <<id, session_name>> >>]),
                  room |-> room,
                  out |-> r.out
                      \o send_message_to_user(ss, id, "room " \o room \o " created.")
                      \o send_message_to_user(ss, id, "tell your friends the room number"),
                  res |-> "created"]

(***************************************************************************)
(* session.rs: what a session does with a command of its client.  The      *)
(* session's name is an Option<String>; the command's argument v[1..] is   *)
(* None for [] and Some(x) for [x].  A request sent to the coordinator is  *)
(* followed to the end of its handler; a reply written with ctx.text goes  *)
(* out to the session's own address.                                       *)
(***************************************************************************)

\* a "/join" that sends Join for a session without a name
stream_join_unnamed(ss, rms, addr, sname, arg) ==
    IF arg # None
    THEN Join_handle(ss, rms, addr[1], IF sname = None THEN "" ELSE sname[1], arg[1])
    ELSE { [rooms |-> rms, out |-> << <<addr, "!!! room name is required">> >>,
            res |-> "room_required", deal |-> NoDeal] }

\* "/join"
stream_join(ss, rms, addr, sname, arg) ==
    IF sname # None /\ arg # None
    THEN Join_handle(ss, rms, addr[1], sname[1], arg[1])
    ELSE IF sname = None
    THEN { [rooms |-> rms, out |-> << <<addr, "!!! session name is required">> >>,
            res |-> "name_required", deal |-> NoDeal] }
    ELSE { [rooms |-> rms, out |-> << <<addr, "!!! room name is required">> >>,
            res |-> "room_required", deal |-> NoDeal] }

\* str::parse::<u8> of the decimal text of n
parse_u8_ok(n) == 0 <= n /\ n <= 255

\* a size test that lets every size through
size_any(size) == TRUE

\* the sizes "/create" lets through to the coordinator
size_supported(size) == size >= LOWER_ROOM_SIZE /\ size <= UPPER_ROOM_SIZE

\* "/create"; the argument is the number its text denotes
stream_create(ss, rms, addr, sname, arg, number) ==
    IF sname # None /\ arg # None
    THEN IF parse_u8_ok(arg[1])
         THEN IF size_supported(arg[1])
              THEN Create_handle(ss, rms, addr[1], sname[1], arg[1], number)
              ELSE [rooms |-> rms, room |-> "",
                    out |-> << <<addr, "!!! room size " \o to_string(arg[1])
                                  \o " is not supported. it should be in range "
                                  \o to_string(LOWER_ROOM_SIZE) \o "-"
                                  \o to_string(UPPER_ROOM_SIZE)>> >>,
                    res |-> "size_unsupported"]
         ELSE [rooms |-> rms, room |-> "",
               out |-> << <<addr, "!!! invalid room size: " \o to_string(arg[1])>> >>,
               res |-> "size_invalid"]
    ELSE IF sname = None
    THEN [rooms |-> rms, room |-> "",
          out |-> << <<addr, "!!! session name is required">> >>, res |-> "name_required"]
    ELSE [rooms |-> rms, room |-> "",
          out |-> << <<addr, "!!! size is required">> >>, res |-> "size_required"]

(***************************************************************************)
(* The system: sessions start, send requests and stop; the coordinator     *)
(* handles one request at a time.  A world w gives the sets the inputs are *)
(* drawn from:                                                             *)
(*   ids     the ids the coordinator's rng draws for Connect               *)
(*   dup     the ids it may draw while a running session holds them        *)
(*   numbers the numbers its rng draws for the name of a new room          *)
(*   names   the names (Option<String>) the sessions have when they send   *)
(*   rooms   the room names the clients type after /join                   *)
(*   sizes   the sizes the clients type after /create                      *)
(***************************************************************************)
NoAddr == <<0, 0>>

\* no session is followed through its mailboxes
NoSess == [state |-> "none", id |-> 0, cmds |-> 0, stream |-> <<>>, coord |-> <<>>,
           mbox |-> <<>>, wait |-> 0, listed |-> None, client |-> <<>>]

\* no Assignment is being made apart from the rooms
NoGame == [phase |-> "none", number |-> 0, ok |-> FALSE, err |-> "", players |-> <<>>,
           views |-> <<>>]

\* no request is being handled: the coordinator waits for its next message
Idle == [op |-> "idle", actor |-> NoAddr, name |-> None, room |-> "", arg |-> 0, res |-> ""]

\* the running actors that are not the registered channel of their id
Stale(ss, lv) == { a \in lv : a[1] \notin DOMAIN ss \/ ss[a[1]] # a }

Init ==
    /\ sessions = <<>>
    /\ rooms = <<>>
    /\ live = {}
    /\ pend = {}
    /\ last = Idle
    /\ sent = <<>>
    /\ reply = <<>>
    /\ assigned = NoDeal
    /\ game = NoGame
    /\ sess = NoSess

\* WsChatSession::started: a new actor registers and is given the id the
\* coordinator's rng drew
started(w) ==
    /\ last = Idle
    /\ UNCHANGED <<game, sess>>
    /\ \E id \in w.ids, g \in Gens :
        LET addr == <<id, g>>
        IN  /\ addr \notin live
            /\ \A h \in Gens : h < g => <<id, h>> \in live
            /\ (id \in pend \/ \E a \in live : a[1] = id) =>
                   /\ id \in w.dup
                   /\ Cardinality(Stale(Connect_handle(sessions, id, addr), live \cup {addr}))
                          <= MaxStale
            /\ sessions' = Connect_handle(sessions, id, addr)
            /\ live' = live \cup {addr}
            /\ last' = [op |-> "connect", actor |-> addr, name |-> None, room |-> "",
                        arg |-> 0, res |-> "registered"]
            /\ sent' = <<>>
            /\ reply' = <<>>
            /\ UNCHANGED <<rooms, pend, assigned>>

\* "/join" of a running session
cmd_join(w) ==
    /\ last = Idle
    /\ UNCHANGED <<game, sess>>
    /\ \E addr \in live, sname \in w.names, arg \in w.rooms :
        \E o \in stream_join(sessions, rooms, addr, sname, arg) :
            /\ rooms' = o.rooms
            /\ sent' = o.out
            /\ last' = [op |-> "join", actor |-> addr, name |-> sname,
                        room |-> IF sname = None \/ arg = None THEN "" ELSE arg[1],
                        arg |-> 0, res |-> o.res]
            /\ reply' = <<>>
            /\ assigned' = o.deal
            /\ UNCHANGED <<sessions, live, pend>>

\* "/create" of a running session
cmd_create(w) ==
    /\ last = Idle
    /\ UNCHANGED <<game, sess>>
    /\ \E addr \in live, sname \in w.names, arg \in w.sizes, number \in w.numbers :
        LET o == stream_create(sessions, rooms, addr, sname, arg, number)
        IN  /\ rooms' = o.rooms
            /\ sent' = o.out
            /\ last' = [op |-> "create", actor |-> addr, name |-> sname, room |-> o.room,
                        arg |-> IF sname = None \/ arg = None THEN 0 ELSE arg[1],
                        res |-> o.res]
            /\ reply' = <<>>
            /\ UNCHANGED <<sessions, live, pend, assigned>>

\* "/list" of a running session: the names are written to its client
cmd_list ==
    /\ last = Idle
    /\ UNCHANGED <<game, sess>>
    /\ \E addr \in live :
        /\ reply' = ListRooms_handle(rooms)
        /\ sent' = [i \in 1 .. Len(reply') |-> <<addr, reply'[i]>>]
        /\ last' = [op |-> "list", actor |-> addr, name |-> None, room |-> "", arg |-> 0,
                    res |-> "listed"]
        /\ UNCHANGED <<sessions, rooms, live, pend, assigned>>

\* the Disconnect{id} a stopping actor sent is handled
disconnect(addr, op) ==
    LET o == Disconnect_handle(sessions, rooms, addr[1])
    IN  /\ sessions' = o.sessions
        /\ rooms' = o.rooms
        /\ sent' = o.out
        /\ last' = [op |-> op, actor |-> addr, name |-> None, room |-> "", arg |-> 0,
                    res |-> o.res]
        /\ reply' = <<>>
        /\ UNCHANGED assigned

\* WsChatSession::stopping after a close frame or a protocol error
stopping ==
    /\ last = Idle
    /\ UNCHANGED <<game, sess>>
    /\ \E addr \in live :
        /\ disconnect(addr, "close")
        /\ live' = live \ {addr}
        /\ UNCHANGED pend

\* the heartbeat check finds the client silent: it sends Disconnect and stops
\* the actor, whose stopping hook will send Disconnect once more
hb ==
    /\ last = Idle
    /\ UNCHANGED <<game, sess>>
    /\ Cardinality(pend) < MaxPend
    /\ \E addr \in live :
        /\ addr[1] \notin pend
        /\ disconnect(addr, "timeout")
        /\ live' = live \ {addr}
        /\ pend' = pend \cup {addr[1]}

\* the Disconnect of the stopping hook of a timed out actor is handled
stopping_after_hb ==
    /\ last = Idle
    /\ UNCHANGED <<game, sess>>
    /\ \E id \in pend :
        /\ disconnect(<<id, 0>>, "second")
        /\ pend' = pend \ {id}
        /\ UNCHANGED live

\* the handler has returned; the coordinator takes its next message
handled ==
    /\ last # Idle
    /\ UNCHANGED <<game, sess>>
    /\ last' = Idle
    /\ sent' = <<>>
    /\ reply' = <<>>
    /\ assigned' = NoDeal
    /\ UNCHANGED <<sessions, rooms, live, pend>>

step(w) ==
    \/ started(w)
    \/ cmd_join(w)
    \/ cmd_create(w)
    \/ cmd_list
    \/ stopping
    \/ hb
    \/ stopping_after_hb
    \/ handled

Options(S) == {None} \cup { Some(x) : x \in S }
TopIds(n) == { i \in 0 .. (n - 1) : i >= n - NDup }
RoomNamesOf(n) == { to_string(k) : k \in RoomNumbers(n) }

SmallWorld ==
    [ids |-> 0 .. (NIds - 1), dup |-> TopIds(NIds), numbers |-> RoomNumbers(NRoomNames),
     names |-> Options({"a"}), rooms |-> Options(RoomNamesOf(NRoomNames)),
     sizes |-> Options({2, 5})]

FillWorld ==
    [ids |-> 0 .. (FillIds - 1), dup |-> TopIds(FillIds), numbers |-> RoomNumbers(FillRoomNames),
     names |-> {Some("a")}, rooms |-> { Some(r) : r \in RoomNamesOf(FillRoomNames) },
     sizes |-> {Some(2), Some(5)}]

Next == step(SmallWorld)

Spec == Init /\ [][Next]_vars

FillNext == step(FillWorld)

FillSpec == Init /\ [][FillNext]_vars

(***************************************************************************)
(* game.rs on its own: an Assignment is made for a number of players and   *)
(* the view of every role is computed from it.  The coordinator is idle.   *)
(***************************************************************************)
SeatNames == <<"p0", "p1", "p2", "p3", "p4", "p5", "p6", "p7", "p8", "p9", "p10", "p11", "p12">>

\* the names of number players, in seat order
player_names(number) == SubSeq(SeatNames, 1, number)

GameInit ==
    /\ sessions = <<>>
    /\ rooms = <<>>
    /\ live = {}
    /\ pend = {}
    /\ last = Idle
    /\ sent = <<>>
    /\ reply = <<>>
    /\ assigned = NoDeal
    /\ sess = NoSess
    /\ \E number \in 0 .. MaxNumber : game = [NoGame EXCEPT !.phase = "input", !.number = number]

\* Assignment::new for game.number names
game_new ==
    /\ game.phase = "input"
    /\ \E a \in Assignment_new(player_names(game.number)) :
          game' = [game EXCEPT !.phase = "dealt", !.ok = a.ok, !.err = a.err,
                               !.players = a.players]
    /\ UNCHANGED <<sessions, rooms, live, pend, last, sent, reply, assigned, sess>>

\* Assignment::see_from_role for every role
game_see ==
    /\ game.phase = "dealt"
    /\ game.ok
    /\ game' = [game EXCEPT !.phase = "seen",
                            !.views = [role \in Role |-> see_from_role(game.players, role)]]
    /\ UNCHANGED <<sessions, rooms, live, pend, last, sent, reply, assigned, sess>>

GameNext == game_new \/ game_see

GameSpec == GameInit /\ [][GameNext]_vars

(***************************************************************************)
(* session.rs with its mailboxes: one session is followed from its start.  *)
(* The frames of its client wait in stream until the actor handles them;   *)
(* the requests it sends wait in coord until the coordinator handles them; *)
(* the Messages the coordinator sends it wait in mbox until it relays      *)
(* them.  Every frame has a number k, and what it causes carries k.        *)
(***************************************************************************)
\* the frames of the client: text commands, and Close (or a protocol error)
SessCommands ==
    { [verb |-> "/list", name |-> Some("a"), room |-> None, size |-> None],
      [verb |-> "/join", name |-> Some("a"), room |-> Some("0"), size |-> None],
      [verb |-> "/join", name |-> None, room |-> Some("0"), size |-> None],
      [verb |-> "/create", name |-> Some("a"), room |-> None, size |-> Some(5)],
      [verb |-> "/create", name |-> Some("a"), room |-> None, size |-> Some(2)],
      [verb |-> "close", name |-> None, room |-> None, size |-> None] }

\* a request to the coordinator
Request(type, id, session_name, room, size) ==
    [type |-> type, id |-> id, session_name |-> session_name, name |-> room, size |-> size]

\* what the session does with a "/join" or "/create": the request it sends,
\* or the text it writes to its client
request_of(cmd, id) ==
    IF cmd.name = None
    THEN [to |-> "client", text |-> "!!! session name is required"]
    ELSE IF cmd.verb = "/join"
    THEN IF cmd.room = None
         THEN [to |-> "client", text |-> "!!! room name is required"]
         ELSE [to |-> "coordinator", req |-> Request("Join", id, cmd.name[1], cmd.room[1], 0)]
    ELSE IF cmd.size = None
    THEN [to |-> "client", text |-> "!!! size is required"]
    ELSE IF ~parse_u8_ok(cmd.size[1])
    THEN [to |-> "client", text |-> "!!! invalid room size: " \o to_string(cmd.size[1])]
    ELSE IF ~size_supported(cmd.size[1])
    THEN [to |-> "client",
          text |-> "!!! room size " \o to_string(cmd.size[1])
                   \o " is not supported. it should be in range "
                   \o to_string(LOWER_ROOM_SIZE) \o "-" \o to_string(UPPER_ROOM_SIZE)]
    ELSE [to |-> "coordinator", req |-> Request("Create", id, cmd.name[1], "", cmd.size[1])]

\* a context that does not wait: the events go on while a reply is awaited
paused_never == FALSE

\* the future of "/list" was registered with wait(ctx): the context handles
\* no other event until it resolves
paused == sess.wait # 0

\* a stopping hook that tells the coordinator nothing
stopping_silent(id) == <<>>

\* the requests WsChatSession::stopping sends
stopping_requests(id) == << Request("Disconnect", id, "", "", 0) >>

\* the Messages among out that the coordinator sent to addr, as caused by k
delivered(out, addr, k) ==
    LET mine == SelectSeq(out, LAMBDA e : e[1] = addr)
    IN  [i \in 1 .. Len(mine) |-> [k |-> k, text |-> mine[i][2]]]

\* the requests in rs, as caused by k
caused(rs, k) == [i \in 1 .. Len(rs) |-> [k |-> k, req |-> rs[i]]]

SessInit ==
    /\ sessions = <<>>
    /\ rooms = <<>>
    /\ live = {}
    /\ pend = {}
    /\ last = Idle
    /\ sent = <<>>
    /\ reply = <<>>
    /\ assigned = NoDeal
    /\ game = NoGame
    /\ sess = [NoSess EXCEPT !.state = "new"]

\* WsChatSession::started: Connect is sent and its reply awaited
sess_started ==
    /\ sess.state = "new"
    /\ \E id \in 0 .. (NIds - 1) :
          /\ sessions' = Connect_handle(sessions, id, <<id, 1>>)
          /\ live' = live \cup {<<id, 1>>}
          /\ sess' = [sess EXCEPT !.state = "running", !.id = id]
    /\ UNCHANGED <<rooms, pend, last, sent, reply, assigned, game>>

\* the client sends a frame
client_frame ==
    /\ sess.state = "running"
    /\ sess.cmds < MaxCmds
    /\ \E cmd \in SessCommands :
          sess' = [sess EXCEPT !.cmds = @ + 1,
                               !.stream = Append(@, [k |-> sess.cmds + 1, cmd |-> cmd])]
    /\ UNCHANGED <<sessions, rooms, live, pend, last, sent, reply, assigned, game>>

\* the actor stops: its stopping hook runs, what waits for it is dropped
stopped_with(requests, k) ==
    [sess EXCEPT !.state = "stopped", !.stream = <<>>, !.mbox = <<>>,
                 !.coord = @ \o caused(requests, k)]

\* StreamHandler::handle of the next frame
stream_handle ==
    /\ sess.state = "running"
    /\ ~paused
    /\ sess.stream # <<>>
    /\ LET k == Head(sess.stream).k
           cmd == Head(sess.stream).cmd
           r == request_of(cmd, sess.id)
       IN  IF cmd.verb = "close"
           THEN /\ sess' = stopped_with(stopping_requests(sess.id), k)
                /\ live' = live \ {<<sess.id, 1>>}
           ELSE /\ live' = live
                /\ sess' =
                     IF cmd.verb = "/list"
                     THEN [sess EXCEPT !.stream = Tail(@), !.wait = k,
                               !.coord = Append(@, [k |-> k,
                                            req |-> Request("ListRooms", sess.id, "", "", 0)])]
                     ELSE IF r.to = "coordinator"
                     THEN [sess EXCEPT !.stream = Tail(@),
                               !.coord = Append(@, [k |-> k, req |-> r.req])]
                     ELSE [sess EXCEPT !.stream = Tail(@),
                               !.client = Append(@, [k |-> k, kind |-> "reply", text |-> r.text])]
    /\ UNCHANGED <<sessions, rooms, pend, last, sent, reply, assigned, game>>

\* the heartbeat check finds the client silent: Disconnect, ctx.stop(), and
\* the stopping hook
sess_hb ==
    /\ sess.state = "running"
    /\ ~paused
    /\ sess' = stopped_with(<< Request("Disconnect", sess.id, "", "", 0) >>
                                \o stopping_requests(sess.id), sess.cmds + 1)
    /\ live' = live \ {<<sess.id, 1>>}
    /\ UNCHANGED <<sessions, rooms, pend, last, sent, reply, assigned, game>>

\* Handler<server::Message>::handle: the text is written to the client
message_handle ==
    /\ sess.state = "running"
    /\ ~paused
    /\ sess.mbox # <<>>
    /\ sess' = [sess EXCEPT !.mbox = Tail(@),
                     !.client = Append(@, [k |-> Head(sess.mbox).k, kind |-> "reply",
                                           text |-> Head(sess.mbox).text])]
    /\ UNCHANGED <<sessions, rooms, live, pend, last, sent, reply, assigned, game>>

\* the reply to ListRooms has come: the names are written to the client
list_resolved ==
    /\ sess.state = "running"
    /\ sess.wait # 0
    /\ sess.listed # None
    /\ LET names == sess.listed[1]
       IN  sess' = [sess EXCEPT !.wait = 0, !.listed = None,
                        !.client = @ \o [i \in 1 .. Len(names) |->
                                            [k |-> sess.wait, kind |-> "line", text |-> names[i]]]]
    /\ UNCHANGED <<sessions, rooms, live, pend, last, sent, reply, assigned, game>>

\* the coordinator handles the next request of the session
coordinator ==
    /\ sess.coord # <<>>
    /\ LET k == Head(sess.coord).k
           req == Head(sess.coord).req
           addr == <<sess.id, 1>>
           to_mbox(out) == IF sess.state = "running" THEN delivered(out, addr, k) ELSE <<>>
       IN  CASE req.type = "ListRooms" ->
                  /\ sess' = [sess EXCEPT !.coord = Tail(@),
                                  !.listed = IF sess.state = "running"
                                             THEN Some(ListRooms_handle(rooms)) ELSE None]
                  /\ UNCHANGED <<sessions, rooms>>
             [] req.type = "Join" ->
                  \E o \in Join_handle(sessions, rooms, req.id, req.session_name, req.name) :
                      /\ rooms' = o.rooms
                      /\ sess' = [sess EXCEPT !.coord = Tail(@), !.mbox = @ \o to_mbox(o.out)]
                      /\ UNCHANGED sessions
             [] req.type = "Create" ->
                  \E number \in RoomNumbers(NRoomNames) :
                      LET o == Create_handle(sessions, rooms, req.id, req.session_name,
                                             req.size, number)
                      IN  /\ rooms' = o.rooms
                          /\ sess' = [sess EXCEPT !.coord = Tail(@), !.mbox = @ \o to_mbox(o.out)]
                          /\ UNCHANGED sessions
             [] req.type = "Disconnect" ->
                  LET o == Disconnect_handle(sessions, rooms, req.id)
                  IN  /\ sessions' = o.sessions
                      /\ rooms' = o.rooms
                      /\ sess' = [sess EXCEPT !.coord = Tail(@)]
    /\ UNCHANGED <<live, pend, last, sent, reply, assigned, game>>

SessNext ==
    \/ sess_started
    \/ client_frame
    \/ stream_handle
    \/ sess_hb
    \/ message_handle
    \/ list_resolved
    \/ coordinator

\* the coordinator's mailbox is served
SessSpec == SessInit /\ [][SessNext]_vars /\ WF_vars(coordinator)

TypeOK ==
    /\ \A id \in DOMAIN sessions : sessions[id] \in live
    /\ \A r \in DOMAIN rooms : rooms[r].size \in LOWER_ROOM_SIZE .. UPPER_ROOM_SIZE

(***************************************************************************)
(* Properties.  last, sent, reply and assigned describe the request the    *)
(* coordinator handled last; caller is the id that request carried.        *)
(***************************************************************************)
Range(s) == { s[i] : i \in 1 .. Len(s) }
SeatIds(seats) == { seats[i][1] : i \in 1 .. Len(seats) }
caller == last.actor[1]
OpenRoomsOf(id) == { r \in DOMAIN rooms : id \in rooms[r].sessions }

\* C1: after every coordinator operation every open room has as many seats
\* as members, the ids of its seats are its members with no id in two
\* seats, and it has at most size members.
C1_RoomInvariant ==
    \A r \in DOMAIN rooms :
        LET room == rooms[r]
        IN  /\ Cardinality(room.sessions) = Len(room.seats)
            /\ SeatIds(room.seats) = room.sessions
            /\ \A i, j \in 1 .. Len(room.seats) :
                   room.seats[i][1] = room.seats[j][1] => i = j
            /\ Cardinality(room.sessions) <= room.size

\* a member has just left a room that keeps other members, one seat short
\* of its size
C1_Witness ==
    /\ last.op \in {"close", "timeout"}
    /\ last.res = "removed"
    /\ \E r \in DOMAIN rooms :
          /\ Cardinality(rooms[r].sessions) = rooms[r].size - 2
          /\ \E e \in Range(sent) : e[2] = "Someone disconnected"

\* C2: each session id is a member of at most one open room.
C2_AtMostOneRoom ==
    \A id \in DOMAIN sessions \cup UNION { rooms[r].sessions : r \in DOMAIN rooms } :
        Cardinality(OpenRoomsOf(id)) <= 1

\* a member of one room has just joined another room, or created one, and
\* the members it left were told
C2_Witness ==
    /\ last.op \in {"join", "create"}
    /\ last.res \in {"joined", "created"}
    /\ OpenRoomsOf(caller) = {last.room}
    /\ \E e \in Range(sent) : e[2] = "Someone disconnected"
    /\ Cardinality(DOMAIN rooms) = 2

\* the request handled in this step is a Join that reached the coordinator
JoinStep == last'.op = "join" /\ last'.room # ""

\* the Join handled in this step makes the membership of the room it names
\* equal to the room's size: the room is open, the caller is not its only
\* member, and with the caller it has size members
FillingStep ==
    /\ JoinStep
    /\ last'.room \in DOMAIN rooms
    /\ LET room == rooms[last'.room]
           id == last'.actor[1]
       IN  /\ room.sessions # {id}
           /\ Cardinality(room.sessions \cup {id}) = room.size

\* the sends that tell the session registered under id, if there is one,
\* the text and nothing else
OnlyTo(ss, id, text) == IF id \in DOMAIN ss THEN << <<ss[id], text>> >> ELSE <<>>

\* C3: the assignment protocol runs exactly in the Join that makes a room's
\* membership equal its size, and that Join deletes the room whatever the
\* assignment gave, so that no room runs it twice; ListRooms returns the
\* open rooms only, and a Join naming a room that is not open takes the
\* room-not-exist branch: it changes no room and its only send is that
\* error, to the channel registered under the caller's id.
C3_FireOnce ==
    [][ /\ (assigned' # NoDeal) <=> FillingStep
        /\ FillingStep =>
              /\ last'.res \in {"assigned", "assign_failed"}
              /\ last'.room \notin DOMAIN rooms'
              /\ SeatIds(assigned'.seats) = rooms[last'.room].sessions \cup {last'.actor[1]}
        /\ last'.op = "list" => Range(reply') = DOMAIN rooms
        /\ (JoinStep /\ last'.room \notin DOMAIN rooms) =>
              /\ last'.res = "not_exist"
              /\ rooms' = rooms
              /\ sent' = OnlyTo(sessions, last'.actor[1], "!!! room not exist")
      ]_vars

\* a Join has just filled a room: the assignment was made and the room is
\* not open any more
C3_Witness ==
    /\ last.op = "join"
    /\ last.res = "assigned"
    /\ Len(assigned.players) = LOWER_ROOM_SIZE
    /\ last.room \notin DOMAIN rooms

\* C4: a Join whose room name is not an open room leaves the session map
\* and every room (membership, seats, size) as they were, so the caller
\* stays in the room it occupied, and the room-not-exist error, and nothing
\* else, goes out to the channel registered under the caller's id.
C4_JoinMissingRoom ==
    [][ (JoinStep /\ last'.room \notin DOMAIN rooms) =>
            /\ sessions' = sessions
            /\ rooms' = rooms
            /\ { r \in DOMAIN rooms' : last'.actor[1] \in rooms'[r].sessions }
                   = OpenRoomsOf(last'.actor[1])
            /\ sent' = OnlyTo(sessions, last'.actor[1], "!!! room not exist")
      ]_vars

\* a member of an open room has just asked to join a room that is not
\* open, and has been sent the error
C4_Witness ==
    /\ last.op = "join"
    /\ last.res = "not_exist"
    /\ last.room \notin DOMAIN rooms
    /\ OpenRoomsOf(caller) # {}
    /\ sent = << <<last.actor, "!!! room not exist">> >>

RoleText(role) == "your role is [" \o name(role) \o "],"
RoleTexts == { RoleText(role) : role \in Role }

\* the text sent after the role message to the seat with index seat_no
HintText(players, seat_no) ==
    LET text == text_from_player(see_from_role(players, players[seat_no + 1][2]), seat_no)
    IN  IF text = "" THEN "you have no hint" ELSE text

\* the seats of the room just filled whose id has a registered channel
RegisteredSeats == { n \in 1 .. Len(assigned.seats) : assigned.seats[n][1] \in DOMAIN sessions }

\* C5: when a room fills and the assignment succeeds, the session
\* registered under the id of each seat is sent exactly one role message,
\* the one naming the role dealt to that seat index, and the next message is
\* to the same session: the visibility text rendered for that seat index,
\* or the no-information message; there is no other role message.
C5_OwnRoleOnly ==
    last.res = "assigned" =>
        /\ Len(assigned.players) = Len(assigned.seats)
        /\ \A n \in RegisteredSeats :
               LET addr == sessions[assigned.seats[n][1]]
                   at == { i \in 1 .. Len(sent) : sent[i][1] = addr /\ sent[i][2] \in RoleTexts }
               IN  /\ assigned.players[n][1] = assigned.seats[n][2]
                   /\ Cardinality(at) = 1
                   /\ \A i \in at :
                          /\ sent[i][2] = RoleText(assigned.players[n][2])
                          /\ i < Len(sent)
                          /\ sent[i + 1] = <<addr, HintText(assigned.players, n - 1)>>
        /\ Cardinality({ i \in 1 .. Len(sent) : sent[i][2] \in RoleTexts })
               = Cardinality(RegisteredSeats)

\* a room has just filled with every seat's id registered; one seat was
\* sent a visibility text and one the no-information message
C5_Witness ==
    /\ last.res = "assigned"
    /\ Cardinality(RegisteredSeats) = LOWER_ROOM_SIZE
    /\ \E e \in Range(sent) : e[2] = "you have no hint"
    /\ \E n \in RegisteredSeats :
          /\ HintText(assigned.players, n - 1) # "you have no hint"
          /\ <<sessions[assigned.seats[n][1]], HintText(assigned.players, n - 1)>> \in Range(sent)

\* C6: when a Join makes a room's membership equal its size, every member
\* of the room that has a registered channel, the joining session included
\* and whatever its id, is sent the room-full notice.
C6_AllToldFull ==
    assigned # NoDeal =>
        \A id \in SeatIds(assigned.seats) \cap DOMAIN sessions :
            <<sessions[id], "everyone is here">> \in Range(sent)

\* the request handled in this step is a Disconnect
DisconnectStep == last'.op \in {"close", "timeout", "second"}

\* C7: a Disconnect of a registered session that is a member of an open
\* room removes it from the session map and from the room's membership and
\* seats; every remaining member that has a registered channel is sent the
\* departure notice; if it was the last member the room is deleted, and a
\* ListRooms returns the open rooms only.
C7_DisconnectMidRoom ==
    [][ /\ \A r \in DOMAIN rooms :
              LET id == last'.actor[1]
              IN  (DisconnectStep /\ id \in DOMAIN sessions /\ id \in rooms[r].sessions) =>
                      /\ id \notin DOMAIN sessions'
                      /\ rooms[r].sessions = {id} => r \notin DOMAIN rooms'
                      /\ rooms[r].sessions # {id} =>
                            /\ r \in DOMAIN rooms'
                            /\ rooms'[r].sessions = rooms[r].sessions \ {id}
                            /\ rooms'[r].seats = SelectSeq(rooms[r].seats, LAMBDA p : p[1] # id)
                            /\ \A m \in rooms'[r].sessions \cap DOMAIN sessions' :
                                   <<sessions'[m], "Someone disconnected">> \in Range(sent')
        /\ last'.op = "list" => Range(reply') = DOMAIN rooms'
      ]_vars

\* C8: a Disconnect for an id that is not in the session map, as the
\* second Disconnect of a removed session is, changes neither the session
\* map nor any room and sends nothing; so of the two Disconnects of a
\* liveness timeout only the first one sends departure notices, and it sends
\* no session more than one.
C8_SecondDisconnectNoOp ==
    [][ /\ (DisconnectStep /\ last'.actor[1] \notin DOMAIN sessions) =>
              /\ last'.res = "absent"
              /\ sessions' = sessions
              /\ rooms' = rooms
              /\ sent' = <<>>
        /\ (DisconnectStep /\ last'.actor[1] \in DOMAIN sessions) =>
              /\ last'.res = "removed"
              /\ \A i, j \in 1 .. Len(sent') : sent'[i] = sent'[j] => i = j
      ]_vars

\* the stopping hook's Disconnect of a timed out session that had left
\* other members in its room has just been handled: the id was absent
C8_Witness ==
    /\ last.op = "second"
    /\ last.res = "absent"
    /\ sent = <<>>
    /\ \E r \in DOMAIN rooms : rooms[r].sessions # {}

\* C9: Connect never returns an id that is in the session map, and it
\* leaves the channel of every registered session as it was.
C9_FreshId ==
    [][ last'.op = "connect" =>
            /\ last'.actor[1] \notin DOMAIN sessions
            /\ \A id \in DOMAIN sessions :
                   id \in DOMAIN sessions' /\ sessions'[id] = sessions[id]
      ]_vars

\* C10 as the spec has it: a named session's /create with size 2 creates a
\* room, which a second session can then fill.
C10_Size2Created ==
    (last.op = "create" /\ last.arg = 2) =>
        /\ last.res = "created"
        /\ last.room \in DOMAIN rooms
        /\ rooms[last.room].size = 2

\* C10, amended: a named session's /create with size 2 is refused by the
\* session with the size-not-supported text and creates no room.  A /create
\* that creates a room has a size in LOWER_ROOM_SIZE .. UPPER_ROOM_SIZE and
\* tells the creator the room's name; when further sessions join that name
\* until the room has size members, the Join that fills it sends every
\* seat's registered session, the creator and the last joiner included, its
\* role message and then one more message (the reveal), and the room is not
\* open any more, so that ListRooms does not return it.
C10_EndToEnd ==
    /\ (last.op = "create" /\ last.arg = 2) =>
          /\ last.res = "size_unsupported"
          /\ last.room = ""
          /\ sent = << <<last.actor,
                 "!!! room size 2 is not supported. it should be in range 5-10">> >>
    /\ (last.op = "create" /\ last.res = "created") =>
          /\ last.arg \in LOWER_ROOM_SIZE .. UPPER_ROOM_SIZE
          /\ last.room \in DOMAIN rooms
          /\ rooms[last.room].size = last.arg
          /\ rooms[last.room].sessions = {caller}
          /\ caller \in DOMAIN sessions =>
                <<sessions[caller], "room " \o last.room \o " created.">> \in Range(sent)
    /\ (last.op = "join" /\ last.res = "assigned") =>
          /\ Len(assigned.seats) \in LOWER_ROOM_SIZE .. UPPER_ROOM_SIZE
          /\ assigned.seats[Len(assigned.seats)][1] = caller
          /\ last.room \notin DOMAIN rooms
          /\ \A n \in RegisteredSeats :
                 \E i \in 1 .. (Len(sent) - 1) :
                     /\ sent[i] = <<sessions[assigned.seats[n][1]],
                                    RoleText(assigned.players[n][2])>>
                     /\ sent[i + 1][1] = sent[i][1]
                     /\ sent[i + 1][2] \notin RoleTexts
    /\ last.op = "list" => \A i \in 1 .. Len(reply) : reply[i] \in DOMAIN rooms

\* the creator of a room of size LOWER_ROOM_SIZE and the sessions that
\* joined it have just been sent their roles by the Join that filled it
C10_Witness ==
    /\ last.op = "join"
    /\ last.res = "assigned"
    /\ Len(assigned.seats) = LOWER_ROOM_SIZE
    /\ Cardinality(RegisteredSeats) = LOWER_ROOM_SIZE
    /\ last.room \notin DOMAIN rooms
    /\ Len(sent) > 2 * LOWER_ROOM_SIZE

\* the request handled in this step is a Create that reached the
\* coordinator; last'.room is the name its rng drew
CreateStep == last'.op = "create" /\ last'.room # ""

\* C11: a Create whose drawn name is the name of an open room leaves the
\* session map and every room as they were, the caller stays in the room it
\* occupies, and the create-failed error, and nothing else, goes out to the
\* channel registered under the caller's id.
C11_CreateCollision ==
    [][ (CreateStep /\ last'.room \in DOMAIN rooms) =>
            /\ last'.res = "create_failed"
            /\ sessions' = sessions
            /\ rooms' = rooms
            /\ { r \in DOMAIN rooms' : last'.actor[1] \in rooms'[r].sessions }
                   = OpenRoomsOf(last'.actor[1])
            /\ sent' = OnlyTo(sessions, last'.actor[1], "!!! create room failed")
      ]_vars

\* a member of an open room has just asked for a new room, the name drawn
\* was in use, and it has been sent the error
C11_Witness ==
    /\ last.op = "create"
    /\ last.res = "create_failed"
    /\ last.room \in DOMAIN rooms
    /\ OpenRoomsOf(caller) # {}
    /\ sent = << <<last.actor, "!!! create room failed">> >>

\* C12: a Create whose drawn name is not in use takes the creator out of
\* every room it is in, deletes the rooms that leaves empty, sends every
\* remaining member (that has a registered channel) of the rooms it left
\* the departure notice, leaves the other rooms as they were, adds one room
\* under the drawn name with the creator as only member and only seat and
\* the requested size, and sends the creator the text carrying that name.
C12_CreateFresh ==
    [][ (CreateStep /\ last'.room \notin DOMAIN rooms) =>
            LET id == last'.actor[1]
                emptied == { r \in DOMAIN rooms : rooms[r].sessions = {id} }
            IN  /\ last'.res = "created"
                /\ sessions' = sessions
                /\ DOMAIN rooms' = (DOMAIN rooms \ emptied) \cup {last'.room}
                /\ \A r \in DOMAIN rooms \ emptied :
                       /\ rooms'[r].sessions = rooms[r].sessions \ {id}
                       /\ rooms'[r].seats = SelectSeq(rooms[r].seats, LAMBDA p : p[1] # id)
                       /\ rooms'[r].size = rooms[r].size
                       /\ id \in rooms[r].sessions =>
                             \A m \in rooms'[r].sessions \cap DOMAIN sessions :
                                 <<sessions[m], "Someone disconnected">> \in Range(sent')
                /\ rooms'[last'.room].sessions = {id}
                /\ SeatIds(rooms'[last'.room].seats) = {id}
                /\ Len(rooms'[last'.room].seats) = 1
                /\ rooms'[last'.room].size = last'.arg
                /\ id \in DOMAIN sessions =>
                      <<sessions[id], "room " \o last'.room \o " created.">> \in Range(sent')
      ]_vars

\* the roles dealt, in seat order, and the seat indexes (from 0) that hold
\* a role of S
DealtRoles == [i \in 1 .. Len(game.players) |-> game.players[i][2]]
Seats(S) == { i - 1 : i \in { k \in 1 .. Len(game.players) : game.players[k][2] \in S } }
Count(seq, x) == Cardinality({ i \in 1 .. Len(seq) : seq[i] = x })

\* the seat indexes a list of a view names; the list is in seat order and
\* carries the names of its seats
Listed(list) == { list[k][1] : k \in 1 .. Len(list) }
WellFormed(list) ==
    /\ \A k \in 1 .. Len(list) : list[k][2] = game.players[list[k][1] + 1][1]
    /\ \A j, k \in 1 .. Len(list) : j < k => list[j][1] < list[k][1]

\* the role pool as the specification gives it
Pool == <<"Merlin", "Assassin", "Percival", "Morgana", "Loyal",
          "Loyal", "Oberon", "Loyal", "Loyal", "Mordred">>

\* C13: for 5 <= n <= 10 every result of deal(n) has length n and holds
\* every role as often as the first n entries of the pool do; for n < 5 and
\* n > 10 deal fails with the invalid-player-number error.
C13_DealPermutation ==
    game.phase = "dealt" =>
        IF 5 <= game.number /\ game.number <= 10
        THEN /\ game.ok
             /\ Len(DealtRoles) = game.number
             /\ \A role \in Role :
                    Count(DealtRoles, role) = Count(SubSeq(Pool, 1, game.number), role)
        ELSE /\ ~game.ok
             /\ game.err = "invalid player number: " \o to_string(game.number)
             /\ game.players = <<>>

\* ten roles have been dealt in an order that is not the pool's
C13_Witness ==
    /\ game.phase = "dealt"
    /\ game.number = 10
    /\ game.ok
    /\ DealtRoles[1] = "Mordred"
    /\ DealtRoles[10] = "Merlin"

\* C14: Merlin's appear-evil list is exactly the seats of the Spy alliance
\* other than Mordred, its appear-good list is every Resistance seat and
\* the Mordred seat; the lists are disjoint and cover every seat.
C14_MerlinView ==
    game.phase = "seen" =>
        LET view == game.views["Merlin"]
        IN  /\ view.tag = "Merlin"
            /\ WellFormed(view.l1) /\ WellFormed(view.l2)
            /\ Listed(view.l2) = Seats({"Assassin", "Morgana", "Oberon"})
            /\ Listed(view.l2) \cap Seats({"Mordred"}) = {}
            /\ Listed(view.l1) = Seats({"Merlin", "Percival", "Loyal"}) \cup Seats({"Mordred"})
            /\ Listed(view.l1) \cap Listed(view.l2) = {}
            /\ Listed(view.l1) \cup Listed(view.l2) = 0 .. (Len(game.players) - 1)

\* Merlin's view of ten players: Mordred is among the good, Oberon among
\* the evil
C14_Witness ==
    /\ game.phase = "seen"
    /\ Seats({"Mordred"}) # {}
    /\ Seats({"Mordred"}) \subseteq Listed(game.views["Merlin"].l1)
    /\ Seats({"Oberon"}) # {}
    /\ Seats({"Oberon"}) \subseteq Listed(game.views["Merlin"].l2)

\* C15: every assignment made for 5 to 10 players holds Merlin and Morgana,
\* and Percival's view is exactly the two seats that hold them.
C15_PercivalView ==
    game.phase = "seen" =>
        LET view == game.views["Percival"]
        IN  /\ Seats({"Merlin"}) # {} /\ Seats({"Morgana"}) # {}
            /\ view.tag = "Percival"
            /\ WellFormed(view.l1)
            /\ Len(view.l1) = 2
            /\ Listed(view.l1) = Seats({"Merlin"}) \cup Seats({"Morgana"})

\* Percival's view where Morgana sits before Merlin
C15_Witness ==
    /\ game.phase = "seen"
    /\ Len(game.views["Percival"].l1) = 2
    /\ game.players[game.views["Percival"].l1[1][1] + 1][2] = "Morgana"
    /\ game.players[game.views["Percival"].l1[2][1] + 1][2] = "Merlin"

\* C16: the view of Assassin, Morgana and Mordred is exactly the seats of
\* the Spy alliance other than Oberon: the viewer's own seat and the
\* Mordred seat are in it, the Oberon seat and the Resistance seats are
\* not; the view of Oberon and of Loyal is empty.
C16_SpyView ==
    game.phase = "seen" =>
        /\ \A role \in {"Assassin", "Morgana", "Mordred"} :
               LET view == game.views[role]
               IN  /\ view.tag = "Spy"
                   /\ WellFormed(view.l1)
                   /\ Listed(view.l1) = Seats({"Assassin", "Morgana", "Mordred"})
                   /\ Seats({role}) \subseteq Listed(view.l1)
                   /\ Seats({"Mordred"}) \subseteq Listed(view.l1)
                   /\ Listed(view.l1) \cap Seats({"Oberon"}) = {}
                   /\ Listed(view.l1) \cap Seats({"Merlin", "Percival", "Loyal"}) = {}
        /\ \A role \in {"Oberon", "Loyal"} :
               /\ game.views[role] = [tag |-> "Normal", l1 |-> <<>>, l2 |-> <<>>]
               /\ \A id \in 0 .. (Len(game.players) - 1) :
                      text_from_player(game.views[role], id) = ""

\* the spies' view of ten players, Oberon and Mordred among them
C16_Witness ==
    /\ game.phase = "seen"
    /\ Seats({"Oberon"}) # {}
    /\ Seats({"Mordred"}) # {}
    /\ Seats({"Mordred"}) \subseteq Listed(game.views["Assassin"].l1)
    /\ Len(game.views["Mordred"].l1) = 3

\* C17: a /join or /create of a session whose name is unset sends no
\* request to the coordinator: the session map and the rooms stay as they
\* are, no session starts or stops, and the only text that goes out is the
\* name-required error to the session's own client.
C17_NameRequired ==
    [][ (last'.op \in {"join", "create"} /\ last'.name = None) =>
            /\ last'.res = "name_required"
            /\ sessions' = sessions
            /\ rooms' = rooms
            /\ live' = live
            /\ pend' = pend
            /\ assigned' = NoDeal
            /\ sent' = << <<last'.actor, "!!! session name is required">> >>
      ]_vars

\* a session without a name has just sent /join for a room that is open
\* and has been refused
C17_Witness ==
    /\ last.op = "join"
    /\ last.name = None
    /\ last.res = "name_required"
    /\ DOMAIN rooms # {}
    /\ OpenRoomsOf(caller) = {}
    /\ sent = << <<last.actor, "!!! session name is required">> >>

\* C20: a Disconnect of the session with id s leaves the registration of
\* every other id as it was, leaves every room that did not contain s as it
\* was (and open), and sends only to channels registered under ids that
\* shared a room with s.
C20_DisconnectFrame ==
    [][ DisconnectStep =>
            LET s == last'.actor[1]
                shared == UNION { rooms[r].sessions : r \in OpenRoomsOf(s) }
            IN  /\ \A id \in DOMAIN sessions \ {s} :
                       id \in DOMAIN sessions' /\ sessions'[id] = sessions[id]
                /\ DOMAIN sessions' \subseteq DOMAIN sessions
                /\ \A r \in DOMAIN rooms \ OpenRoomsOf(s) :
                       r \in DOMAIN rooms' /\ rooms'[r] = rooms[r]
                /\ DOMAIN rooms' \subseteq DOMAIN rooms
                /\ \A e \in Range(sent') :
                       \E id \in shared \ {s} : id \in DOMAIN sessions /\ e[1] = sessions[id]
      ]_vars

\* a member of one room has just disconnected while another room, with a
\* member of its own, is open: the other room and its member are as before
C20_Witness ==
    /\ last.op \in {"close", "timeout"}
    /\ last.res = "removed"
    /\ sent # <<>>
    /\ \E r \in DOMAIN rooms : \A e \in Range(sent) : e[1][1] \notin rooms[r].sessions
    /\ Cardinality(DOMAIN rooms) = 2

\* C18: while the reply to a "/list" is awaited, every frame the client sent
\* after it is still unhandled (it waits in the stream, nothing it would
\* cause has been sent or written), and in what the client receives the
\* room-name lines of a "/list" come before every reply to a later frame.
C18_ListBlocks ==
    /\ sess.wait # 0 =>
           /\ { sess.stream[i].k : i \in DOMAIN sess.stream } = (sess.wait + 1) .. sess.cmds
           /\ \A i \in DOMAIN sess.coord : sess.coord[i].k <= sess.wait
           /\ \A i \in DOMAIN sess.mbox : sess.mbox[i].k <= sess.wait
           /\ \A i \in DOMAIN sess.client : sess.client[i].k <= sess.wait
    /\ \A i, j \in DOMAIN sess.client :
           /\ sess.client[i].kind = "reply"
           /\ sess.client[j].kind = "line"
           /\ sess.client[i].k > sess.client[j].k
           => j < i

\* the client sent a frame while the reply to its "/list" was awaited, and
\* has received the name of a room and then the reply to the later frame
C18_Witness ==
    \E i, j \in DOMAIN sess.client :
        /\ i < j
        /\ sess.client[i].kind = "line"
        /\ sess.client[j].kind = "reply"
        /\ sess.client[j].k > sess.client[i].k

\* the id of the session is in no room and not in the session map
Deregistered ==
    /\ sess.id \notin DOMAIN sessions
    /\ \A r \in DOMAIN rooms : sess.id \notin rooms[r].sessions

\* C19: the step in which a registered session stops, after a close frame,
\* a protocol error or a heartbeat timeout, sends the coordinator a
\* Disconnect with the id of the session; and when the coordinator serves
\* its mailbox, a stopped session's id is eventually in no room and not in
\* the session map.
C19_Deregisters ==
    /\ [][ (sess.state = "running" /\ sess'.state = "stopped") =>
              \E i \in DOMAIN sess'.coord :
                  /\ i > Len(sess.coord)
                  /\ sess'.coord[i].req.type = "Disconnect"
                  /\ sess'.coord[i].req.id = sess.id
         ]_vars
    /\ (sess.state = "stopped") ~> Deregistered

\* the session has stopped while it is registered and the member of a room;
\* its Disconnect waits in the coordinator's mailbox
C19_Witness ==
    /\ sess.state = "stopped"
    /\ sess.id \in DOMAIN sessions
    /\ \E r \in DOMAIN rooms : sess.id \in rooms[r].sessions
    /\ sess.coord # <<>>

\* the assignment-failure notices Handler<Join> can broadcast
FailureNotices ==
    { "assignment failed: invalid player number: " \o to_string(n) : n \in 0 .. (MaxNumber + 1) }

\* C21: when Create reaches the coordinator through "/create" only, every
\* open room has a size in LOWER_ROOM_SIZE .. UPPER_ROOM_SIZE, a Join that
\* fills a room deals to that many seats, the assignment does not fail and
\* no assignment-failure notice is sent.
C21_NoAssignFailure ==
    /\ \A r \in DOMAIN rooms : rooms[r].size \in LOWER_ROOM_SIZE .. UPPER_ROOM_SIZE
    /\ last.res # "assign_failed"
    /\ assigned # NoDeal =>
           /\ Len(assigned.seats) \in LOWER_ROOM_SIZE .. UPPER_ROOM_SIZE
           /\ Len(assigned.players) = Len(assigned.seats)
    /\ \A e \in Range(sent) : e[2] \notin FailureNotices

\* a Join has just filled a room created by "/create": every seat was dealt
\* a role
C21_Witness ==
    /\ last.op = "join"
    /\ last.res = "assigned"
    /\ assigned # NoDeal
    /\ Len(assigned.players) = Len(assigned.seats)
    /\ Len(assigned.seats) = LOWER_ROOM_SIZE
    /\ sent # <<>>

\* the texts sent to addr in the request handled last, in order
TextsTo(addr) ==
    LET mine == SelectSeq(sent, LAMBDA e : e[1] = addr)
    IN  [i \in 1 .. Len(mine) |-> mine[i][2]]

\* C22: in the Join that fills a room, the session registered under the id
\* of each seat is sent, in this order: the join confirmation (the joiner)
\* or the "<name> connected" notice (every other member), the room-full
\* notice, its role message, its visibility text.
C22_FillOrder ==
    last.res = "assigned" =>
        \A n \in RegisteredSeats :
            LET id == assigned.seats[n][1]
                first == IF id = caller THEN "joined" ELSE last.name[1] \o " connected"
            IN  TextsTo(sessions[id])
                    = << first, "everyone is here", RoleText(assigned.players[n][2]),
                         HintText(assigned.players, n - 1) >>

\* C23: in every state every member of every open room is a key of the
\* session map.
C23_MembersRegistered ==
    \A r \in DOMAIN rooms : rooms[r].sessions \subseteq DOMAIN sessions

\* C24: a Join for room R by the only member of R deletes R in its implicit
\* leave: after it R is not open, the caller is in no room, the other rooms
\* and the session map are as they were, and what is sent is the
\* room-not-exist error, to the channel registered under the caller's id,
\* and no join confirmation.
C24_JoinOwnRoomAlone ==
    [][ (JoinStep /\ last'.room \in DOMAIN rooms
                  /\ rooms[last'.room].sessions = {last'.actor[1]}) =>
            LET id == last'.actor[1]
            IN  /\ last'.res = "deleted"
                /\ last'.room \notin DOMAIN rooms'
                /\ \A r \in DOMAIN rooms' : id \notin rooms'[r].sessions
                /\ \A r \in DOMAIN rooms \ {last'.room} :
                       r \in DOMAIN rooms' /\ rooms'[r] = rooms[r]
                /\ sessions' = sessions
                /\ sent' = OnlyTo(sessions, id, "!!! room not exist, may be deleted just now")
                /\ \A e \in Range(sent') : e[2] # "joined"
      ]_vars

\* the only member of a room has just sent Join for it while another room
\* is open: its room is gone, it is in no room and was sent the error
C24_Witness ==
    /\ last.op = "join"
    /\ last.res = "deleted"
    /\ last.room \notin DOMAIN rooms
    /\ OpenRoomsOf(caller) = {}
    /\ DOMAIN rooms # {}
    /\ sent = << <<last.actor, "!!! room not exist, may be deleted just now">> >>

=============================================================================
